---- MODULE Spec2Model ----
(***************************************************************************)
(* Model of the Gmail mail-merge tool in src/app.py: the helper functions  *)
(* (extract_email, get_or_create_label, safe_format_template) and the      *)
(* handler of the "Send Emails / Save Drafts" button (the dispatch loop).  *)
(*                                                                         *)
(* Strings are sequences of one-character strings.  The Gmail service is   *)
(* the environment: every call on it either returns or raises, and it      *)
(* hands out message, thread and label identifiers from counters.          *)
(***************************************************************************)
EXTENDS Integers, Sequences, FiniteSets, TLC

\* ------------------------------------------------------------------------
\* Bounds of the model
\* ------------------------------------------------------------------------
MaxRows == 3
MaxCalls == 3
MaxTokens == 3

\* Python's None
None == "None"

\* None where the other values are texts: extract_email returns a match,
\* which is never empty, or None, and the loop tests it with "not to_addr"
NoMatch == <<>>

\* ------------------------------------------------------------------------
\* extract_email
\* ------------------------------------------------------------------------
\* \w of EMAIL_REGEX, restricted to the characters the model uses
WordChars == {"a", "b", "c", "J"}

\* the class [\w\.-] of EMAIL_REGEX
AddrChars == WordChars \cup {".", "-"}

\* SubSeq(s, i, j) is a whole match of [\w\.-]+@[\w\.-]+\.\w+
EMAIL_REGEX(s, i, j) ==
    \E a \in {k \in i + 1 .. j : s[k] = "@"} :
      \E p \in {k \in a + 2 .. j - 1 : s[k] = "."} :
        /\ \A k \in i .. a - 1 : s[k] \in AddrChars
        /\ \A k \in a + 1 .. p - 1 : s[k] \in AddrChars
        /\ \A k \in p + 1 .. j : s[k] \in WordChars

\* str.strip() for the blank the model uses
RECURSIVE strip(_)
strip(s) ==
    IF s = <<>> THEN s
    ELSE IF Head(s) = " " THEN strip(Tail(s))
    ELSE IF s[Len(s)] = " " THEN strip(SubSeq(s, 1, Len(s) - 1))
    ELSE s

\* the leftmost position at or after i where a match starts, 0 if none
RECURSIVE first_from(_, _)
first_from(value, i) ==
    IF i > Len(value) THEN 0
    ELSE IF \E j \in i .. Len(value) : EMAIL_REGEX(value, i, j) THEN i
    ELSE first_from(value, i + 1)

\* the end of the match that starts at i: the quantifiers are greedy, and
\* the longest match from i is the one they find
RECURSIVE last_to(_, _, _)
last_to(value, i, j) ==
    IF EMAIL_REGEX(value, i, j) THEN j ELSE last_to(value, i, j - 1)

\* EMAIL_REGEX.search(str(value)): the leftmost match, or None (NoMatch)
extract_email(value) ==
    IF value = <<>> THEN NoMatch
    ELSE LET i == first_from(value, 1)
         IN  IF i = 0 THEN NoMatch
             ELSE SubSeq(value, i, last_to(value, i, Len(value)))

\* ------------------------------------------------------------------------
\* get_or_create_label
\* ------------------------------------------------------------------------
\* str.lower() on one character
LowerChar(c) == IF c = "M" THEN "m" ELSE IF c = "S" THEN "s" ELSE c

\* str.lower()
lower(s) == [i \in DOMAIN s |-> LowerChar(s[i])]

\* the label names a user types; the first is the default of the text input
LabelNames == {<<"M", "S">>, <<"m", "s">>, <<"M", "s">>, <<"x">>}

\* the identifier the service gives to its k-th created label
LabelId(k) == "Label_" \o ToString(k)

\* get_or_create_label comparing the names as they are written
get_or_create_label_exact(store, label_name, listOk, createOk) ==
    IF ~listOk THEN [id |-> None, labels |-> store, raised |-> TRUE]
    ELSE LET hits == {i \in DOMAIN store : store[i].name = label_name}
         IN  IF hits # {}
             THEN [id |-> store[CHOOSE i \in hits : \A k \in hits : i <= k].id,
                   labels |-> store, raised |-> FALSE]
             ELSE IF createOk
                  THEN [id |-> LabelId(Len(store) + 1),
                        labels |-> Append(store, [id |-> LabelId(Len(store) + 1),
                                                  name |-> label_name]),
                        raised |-> FALSE]
                  ELSE [id |-> None, labels |-> store, raised |-> TRUE]

\* get_or_create_label(service, label_name) on a service whose label list is
\* store (in list order); listOk and createOk say whether labels().list and
\* labels().create return rather than raise.  The result is the returned
\* value, the label list of the service after the call, and whether the
\* except branch was taken.
get_or_create_label(store, label_name, listOk, createOk) ==
    IF ~listOk THEN [id |-> None, labels |-> store, raised |-> TRUE]
    ELSE LET hits == {i \in DOMAIN store : lower(store[i].name) = lower(label_name)}
         IN  IF hits # {}
             THEN [id |-> store[CHOOSE i \in hits : \A k \in hits : i <= k].id,
                   labels |-> store, raised |-> FALSE]
             ELSE IF createOk
                  THEN [id |-> LabelId(Len(store) + 1),
                        labels |-> Append(store, [id |-> LabelId(Len(store) + 1),
                                                  name |-> label_name]),
                        raised |-> FALSE]
                  ELSE [id |-> None, labels |-> store, raised |-> TRUE]

\* ------------------------------------------------------------------------
\* safe_format_template
\* ------------------------------------------------------------------------
\* The model covers templates without the characters ':', '!', '.', '[' and
\* newline, and field names that are not numbers.

Range(s) == {s[i] : i \in DOMAIN s}

\* the positions of '}' in t at or after i
Closes(t, i) == {j \in i .. Len(t) : t[j] = "}"}

Min(S) == CHOOSE x \in S : \A y \in S : x <= y

Raised == [ok |-> FALSE, out |-> <<>>]

\* str.format(**ctx) from position i on, out being the text produced so far:
\* '{{' and '}}' are literal braces, '{name}' is ctx[name], and a single
\* brace, a '{' inside a field, an empty field name and a missing key raise.
RECURSIVE format_from(_, _, _, _)
format_from(t, ctx, i, out) ==
    IF i > Len(t) THEN [ok |-> TRUE, out |-> out]
    ELSE IF t[i] = "{"
    THEN IF i = Len(t) THEN Raised
         ELSE IF t[i + 1] = "{" THEN format_from(t, ctx, i + 2, Append(out, "{"))
         ELSE IF Closes(t, i + 1) = {} THEN Raised
         ELSE LET j == Min(Closes(t, i + 1))
                  name == SubSeq(t, i + 1, j - 1)
              IN  IF "{" \in Range(name) \/ name = <<>> THEN Raised
                  ELSE IF name \notin DOMAIN ctx THEN Raised
                  ELSE format_from(t, ctx, j + 1, out \o ctx[name])
    ELSE IF t[i] = "}"
    THEN IF i < Len(t) /\ t[i + 1] = "}"
         THEN format_from(t, ctx, i + 2, Append(out, "}"))
         ELSE Raised
    ELSE format_from(t, ctx, i + 1, Append(out, t[i]))

\* template.format(**ctx)
format(t, ctx) == format_from(t, ctx, 1, <<>>)

\* re.findall(r"\{(.*?)\}", t) from position i on, as a set
RECURSIVE findall(_, _)
findall(t, i) ==
    IF i > Len(t) THEN {}
    ELSE IF t[i] = "{" /\ Closes(t, i + 1) # {}
    THEN LET j == Min(Closes(t, i + 1))
         IN  {SubSeq(t, i + 1, j - 1)} \cup findall(t, j + 1)
    ELSE findall(t, i + 1)

\* safe_format_template(template, row), row being row.to_dict()
safe_format_template(template, row) ==
    LET first == format(template, row)
    IN  IF first.ok THEN first.out
        ELSE LET keys == findall(template, 1)
                 ctx == [k \in keys |-> IF k \in DOMAIN row THEN row[k] ELSE <<>>]
                 second == format(template, ctx)
             IN  IF second.ok THEN second.out ELSE template

\* ------------------------------------------------------------------------
\* State
\* ------------------------------------------------------------------------
VARIABLES
    pc,                 \* position of the button handler
    df,                 \* the recipient table, a sequence of rows
    columns,            \* the column names of df
    uploaded,           \* the table as uploaded (df before the handler ran)
    send_mode,          \* the radio choice
    label_name,         \* the label text input
    delay,              \* the delay slider, in seconds
    label_id,
    sent_count,
    skipped,
    errors,
    idx,                \* the row the loop is at, 1-based
    to_addr,
    sent_msg,
    message_id_header,
    requests,           \* the Gmail calls the handler has issued, in order
    sleeps,             \* per row, the number of time.sleep calls made for it
    nap,                \* the duration of the current row's sleep, in 1/10 s
    written,            \* the rows whose ThreadId/RfcMessageId the loop set
    outcome,            \* per row, the outcomes the loop has counted for it
    labels,             \* the label list of the Gmail account
    results,            \* the get_or_create_label calls made: name, result, raised
    tokens,             \* the pieces the template is composed of
    template,
    row,
    rendered

dvars == <<pc, df, columns, uploaded, send_mode, label_name, delay, label_id,
           sent_count, skipped, errors, idx, to_addr, sent_msg,
           message_id_header, requests, sleeps, nap, written, outcome>>
fvars == <<tokens, template, row, rendered>>
vars == <<dvars, labels, results, fvars>>

\* ------------------------------------------------------------------------
\* The button handler (the dispatch loop)
\* ------------------------------------------------------------------------
NewEmail == "New Email"
FollowUp == "Follow-up (Reply)"
SaveDraft == "Save as Draft"
SendModes == {NewEmail, FollowUp, SaveDraft}

\* st.slider("Delay between emails (seconds)", 30, 300, 30, 5): the ends
Delays == {30, 300}

\* values of the Email column
RawEmails == {<<"J", " ", "<", "a", "@", "b", ".", "c", ">">>,
              <<"a", "@", "b">>}

\* line 259: extract_email(str(row.get("Email", "")).strip()) for each value
\* of the Email column
address == [e \in RawEmails |-> extract_email(strip(e))]

\* ThreadId / RfcMessageId a row carries from an earlier run
OldThread == "t0"
OldRfcId == "r0"

Rows == [Email : RawEmails, ThreadId : {None}, RfcMessageId : {None}]
            \cup [Email : RawEmails, ThreadId : {OldThread}, RfcMessageId : {OldRfcId}]

Tables == UNION {[1 .. n -> Rows] : n \in 1 .. MaxRows}

\* the label lists an account can have before the run
Stores == {<<>>, <<[id |-> LabelId(1), name |-> <<"m", "s">>]>>}

NoMsg == [id |-> None, threadId |-> None]

\* text_input("Subject", "Hello {Name}")
subject_template == <<"H", "e", "l", "l", "o", " ", "{", "N", "a", "m", "e", "}">>

\* the text of a cell, NaN and None as Python prints them
Cell(v) == IF v = None THEN <<"N", "o", "n", "e">> ELSE <<v>>

\* row.to_dict() of a row of the table
to_dict(r, cols) ==
    [k \in {<<"E", "m", "a", "i", "l">>}
           \cup (IF "ThreadId" \in cols
                 THEN {<<"T", "h", "r", "e", "a", "d", "I", "d">>,
                       <<"R", "f", "c", "M", "e", "s", "s", "a", "g", "e", "I", "d">>}
                 ELSE {}) |->
        IF k = <<"E", "m", "a", "i", "l">> THEN r.Email
        ELSE IF k = <<"T", "h", "r", "e", "a", "d", "I", "d">> THEN Cell(r.ThreadId)
        ELSE Cell(r.RfcMessageId)]

\* the identifiers the service gives to the k-th message it accepts
MsgId(k) == "m" \o ToString(k)
ThreadId(k) == "t" \o ToString(k)
RfcId(k) == "r" \o ToString(k)

\* one entry of requests
Request(op, r, body, id, label, ok) ==
    [op |-> op, row |-> r, body |-> body, id |-> id, label |-> label, ok |-> ok]

\* the messages the service has accepted (sent or saved as draft) so far
Accepted == {i \in DOMAIN requests :
                requests[i].op \in {"send", "draft"} /\ requests[i].ok}

\* lines 264-271: the message of a row with an address: To and Subject only
msg_body(r, cols, addr) ==
    [raw |-> [To |-> addr,
              Subject |-> safe_format_template(subject_template, to_dict(r, cols))]]

\* the body of the request of line 274 or 276
submit_body(r, cols, addr) ==
    IF send_mode = SaveDraft THEN [message |-> msg_body(r, cols, addr)]
    ELSE msg_body(r, cols, addr)

Init ==
    /\ pc = "button"
    /\ \E t \in Tables, withIds \in BOOLEAN :
          /\ df = t
          /\ uploaded = t
          /\ columns = IF withIds THEN {"Email", "ThreadId", "RfcMessageId"}
                       ELSE {"Email"}
          /\ withIds \/ \A i \in DOMAIN t : t[i].ThreadId = None
    /\ send_mode \in SendModes
    /\ label_name = <<"M", "S">>
    /\ delay \in Delays
    /\ labels \in Stores
    /\ label_id = None
    /\ sent_count = 0
    /\ skipped = <<>>
    /\ errors = <<>>
    /\ idx = 1
    /\ to_addr = NoMatch
    /\ sent_msg = NoMsg
    /\ message_id_header = None
    /\ requests = <<>>
    /\ sleeps = [i \in DOMAIN df |-> 0]
    /\ nap = 0
    /\ written = {}
    /\ outcome = [i \in DOMAIN df |-> <<>>]
    /\ results = <<>>
    /\ tokens = <<>>
    /\ template = <<>>
    /\ row = <<>>
    /\ rendered = <<>>

\* lines 247-256: the button is pressed; the label is resolved, the counters
\* are set and the ThreadId and RfcMessageId columns are added when missing
Press ==
    /\ pc = "button"
    /\ \E listOk \in BOOLEAN, createOk \in BOOLEAN :
          LET r == get_or_create_label(labels, label_name, listOk, createOk)
          IN  /\ label_id' = r.id
              /\ labels' = r.labels
              /\ results' = Append(results, [name |-> label_name, id |-> r.id,
                                          raised |-> r.raised])
    /\ sent_count' = 0
    /\ skipped' = <<>>
    /\ errors' = <<>>
    /\ columns' = columns \cup {"ThreadId", "RfcMessageId"}
    /\ pc' = "row"
    /\ UNCHANGED <<outcome, nap, df, uploaded, send_mode, label_name, delay, idx, to_addr,
                   sent_msg, message_id_header, requests, sleeps, written, fvars>>

\* Skip without its continue: the row is noted as skipped and the loop goes
\* on into the try block with it
Skip_NoContinue ==
    /\ pc = "row"
    /\ idx <= Len(df)
    /\ address[df[idx].Email] = NoMatch
    /\ to_addr' = NoMatch
    /\ skipped' = Append(skipped, df[idx].Email)
    /\ outcome' = [outcome EXCEPT ![idx] = Append(@, "skipped")]
    /\ requests' = Append(requests,
           Request(IF send_mode = SaveDraft THEN "draft" ELSE "send", idx,
                   submit_body(df[idx], columns, NoMatch),
                   MsgId(Cardinality(Accepted) + 1), None, TRUE))
    /\ sent_msg' = [id |-> MsgId(Cardinality(Accepted) + 1),
                     threadId |-> ThreadId(Cardinality(Accepted) + 1)]
    /\ pc' = "sleep"
    /\ UNCHANGED <<nap, idx, df, columns, uploaded, send_mode, label_name, delay,
                   label_id, sent_count, errors, message_id_header, sleeps,
                   written, labels, results, fvars>>

\* lines 258-262: the next row has no address in its Email cell
Skip ==
    /\ pc = "row"
    /\ idx <= Len(df)
    /\ address[df[idx].Email] = NoMatch
    /\ to_addr' = NoMatch
    /\ skipped' = Append(skipped, df[idx].Email)
    /\ outcome' = [outcome EXCEPT ![idx] = Append(@, "skipped")]
    /\ idx' = idx + 1
    /\ UNCHANGED <<nap, pc, df, columns, uploaded, send_mode, label_name, delay,
                   label_id, sent_count, errors, sent_msg, message_id_header,
                   requests, sleeps, written, labels, results, fvars>>

\* SubmitOk with line 296 moved up to the send: the thread id is stored as
\* soon as the message is accepted
SubmitOk_RecordsThread ==
    /\ pc = "row"
    /\ idx <= Len(df)
    /\ address[df[idx].Email] # NoMatch
    /\ LET k == Cardinality(Accepted) + 1
           addr == address[df[idx].Email]
       IN  /\ to_addr' = addr
           /\ sent_msg' = [id |-> MsgId(k), threadId |-> ThreadId(k)]
           /\ requests' = Append(requests,
                  Request(IF send_mode = SaveDraft THEN "draft" ELSE "send", idx,
                          submit_body(df[idx], columns, addr), MsgId(k), None, TRUE))
    /\ df' = [df EXCEPT ![idx].ThreadId = ThreadId(Cardinality(Accepted) + 1)]
    /\ pc' = "sleep"
    /\ UNCHANGED <<outcome, nap, columns, uploaded, send_mode, label_name, delay, label_id,
                   sent_count, skipped, errors, idx, message_id_header, sleeps,
                   written, labels, results, fvars>>

\* lines 259, 264-276: the row has an address and drafts().create or
\* messages().send returns
SubmitOk ==
    /\ pc = "row"
    /\ idx <= Len(df)
    /\ address[df[idx].Email] # NoMatch
    /\ LET k == Cardinality(Accepted) + 1
           addr == address[df[idx].Email]
       IN  /\ to_addr' = addr
           /\ sent_msg' = [id |-> MsgId(k), threadId |-> ThreadId(k)]
           /\ requests' = Append(requests,
                  Request(IF send_mode = SaveDraft THEN "draft" ELSE "send", idx,
                          submit_body(df[idx], columns, addr), MsgId(k), None, TRUE))
    /\ pc' = "sleep"
    /\ UNCHANGED <<outcome, nap, df, columns, uploaded, send_mode, label_name, delay, label_id,
                   sent_count, skipped, errors, idx, message_id_header, sleeps,
                   written, labels, results, fvars>>

\* SubmitFail with the except clause outside the loop: the run ends at the
\* first send that raises
SubmitFail_Abort ==
    /\ pc = "row"
    /\ idx <= Len(df)
    /\ address[df[idx].Email] # NoMatch
    /\ LET addr == address[df[idx].Email]
       IN  /\ to_addr' = addr
           /\ requests' = Append(requests,
                  Request(IF send_mode = SaveDraft THEN "draft" ELSE "send", idx,
                          submit_body(df[idx], columns, addr), None, None, FALSE))
           /\ errors' = Append(errors, <<addr, "submit raised">>)
    /\ outcome' = [outcome EXCEPT ![idx] = Append(@, "failed")]
    /\ idx' = idx + 1
    /\ pc' = "done"
    /\ UNCHANGED <<nap, df, columns, uploaded, send_mode, label_name, delay,
                   label_id, sent_count, skipped, sent_msg, message_id_header,
                   sleeps, written, labels, results, fvars>>

\* lines 259, 264-276, 300-301: drafts().create or messages().send raises
SubmitFail ==
    /\ pc = "row"
    /\ idx <= Len(df)
    /\ address[df[idx].Email] # NoMatch
    /\ LET addr == address[df[idx].Email]
       IN  /\ to_addr' = addr
           /\ requests' = Append(requests,
                  Request(IF send_mode = SaveDraft THEN "draft" ELSE "send", idx,
                          submit_body(df[idx], columns, addr), None, None, FALSE))
           /\ errors' = Append(errors, <<addr, "submit raised">>)
    /\ outcome' = [outcome EXCEPT ![idx] = Append(@, "failed")]
    /\ idx' = idx + 1
    /\ UNCHANGED <<nap, pc, df, columns, uploaded, send_mode, label_name, delay,
                   label_id, sent_count, skipped, sent_msg, message_id_header,
                   sleeps, written, labels, results, fvars>>

\* random.uniform(delay * 0.9, delay * 1.1), in 1/10 s: the ends and the middle
Uniform(d) == {9 * d, 10 * d, 11 * d}

\* line 278
Sleep ==
    /\ pc = "sleep"
    /\ \E d \in Uniform(delay) : nap' = d
    /\ sleeps' = [sleeps EXCEPT ![idx] = @ + 1]
    /\ pc' = "get"
    /\ UNCHANGED <<outcome, df, columns, uploaded, send_mode, label_name, delay, label_id,
                   sent_count, skipped, errors, idx, to_addr, sent_msg,
                   message_id_header, requests, written, labels, results, fvars>>

\* GetOk with line 289 testing the label id only
GetOk_LabelInAnyMode ==
    /\ pc = "get"
    /\ \E withHeader \in BOOLEAN :
          message_id_header' =
              IF withHeader THEN RfcId(Cardinality(Accepted)) ELSE None
    /\ requests' = Append(requests,
           Request("get", idx, <<>>, sent_msg.id, None, TRUE))
    /\ pc' = IF label_id # None THEN "modify" ELSE "record"
    /\ UNCHANGED <<outcome, nap, df, columns, uploaded, send_mode, label_name, delay, label_id,
                   sent_count, skipped, errors, idx, to_addr, sent_msg, sleeps,
                   written, labels, results, fvars>>

\* lines 280-287: messages().get returns, with or without a Message-ID header
GetOk ==
    /\ pc = "get"
    /\ \E withHeader \in BOOLEAN :
          message_id_header' =
              IF withHeader THEN RfcId(Cardinality(Accepted)) ELSE None
    /\ requests' = Append(requests,
           Request("get", idx, <<>>, sent_msg.id, None, TRUE))
    /\ pc' = IF send_mode = NewEmail /\ label_id # None THEN "modify" ELSE "record"
    /\ UNCHANGED <<outcome, nap, df, columns, uploaded, send_mode, label_name, delay, label_id,
                   sent_count, skipped, errors, idx, to_addr, sent_msg, sleeps,
                   written, labels, results, fvars>>

\* lines 280-285, 300-301: messages().get raises
GetFail ==
    /\ pc = "get"
    /\ requests' = Append(requests,
           Request("get", idx, <<>>, sent_msg.id, None, FALSE))
    /\ errors' = Append(errors, <<to_addr, "get raised">>)
    /\ outcome' = [outcome EXCEPT ![idx] = Append(@, "failed")]
    /\ idx' = idx + 1
    /\ nap' = 0
    /\ pc' = "row"
    /\ UNCHANGED <<df, columns, uploaded, send_mode, label_name, delay, label_id,
                   sent_count, skipped, to_addr, sent_msg, message_id_header,
                   sleeps, written, labels, results, fvars>>

\* lines 289-294: messages().modify returns
ModifyOk ==
    /\ pc = "modify"
    /\ requests' = Append(requests,
           Request("modify", idx, <<>>, sent_msg.id, label_id, TRUE))
    /\ pc' = "record"
    /\ UNCHANGED <<outcome, nap, df, columns, uploaded, send_mode, label_name, delay, label_id,
                   sent_count, skipped, errors, idx, to_addr, sent_msg,
                   message_id_header, sleeps, written, labels, results, fvars>>

\* lines 289-294, 300-301: messages().modify raises
ModifyFail ==
    /\ pc = "modify"
    /\ requests' = Append(requests,
           Request("modify", idx, <<>>, sent_msg.id, label_id, FALSE))
    /\ errors' = Append(errors, <<to_addr, "modify raised">>)
    /\ outcome' = [outcome EXCEPT ![idx] = Append(@, "failed")]
    /\ idx' = idx + 1
    /\ nap' = 0
    /\ pc' = "row"
    /\ UNCHANGED <<df, columns, uploaded, send_mode, label_name, delay, label_id,
                   sent_count, skipped, to_addr, sent_msg, message_id_header,
                   sleeps, written, labels, results, fvars>>

\* lines 296-298
Record ==
    /\ pc = "record"
    /\ df' = [df EXCEPT ![idx].ThreadId = sent_msg.threadId,
                        ![idx].RfcMessageId =
                            IF message_id_header # None THEN message_id_header ELSE ""]
    /\ written' = written \cup {idx}
    /\ sent_count' = sent_count + 1
    /\ outcome' = [outcome EXCEPT ![idx] = Append(@, "sent")]
    /\ idx' = idx + 1
    /\ nap' = 0
    /\ pc' = "row"
    /\ UNCHANGED <<columns, uploaded, send_mode, label_name, delay, label_id,
                   skipped, errors, to_addr, sent_msg, message_id_header,
                   requests, sleeps, labels, results, fvars>>

\* lines 306-318: after the last row the table is saved and mailed to the
\* user; send_email_backup catches what its messages().send raises
Backup ==
    /\ pc = "row"
    /\ idx > Len(df)
    /\ \E ok \in BOOLEAN :
          requests' = Append(requests,
              Request("send", 0, [raw |-> [To |-> <<"m", "e">>, Subject |-> <<"B">>]],
                      IF ok THEN MsgId(Cardinality(Accepted) + 1) ELSE None, None, ok))
    /\ pc' = "done"
    /\ UNCHANGED <<outcome, nap, df, columns, uploaded, send_mode, label_name, delay, label_id,
                   sent_count, skipped, errors, idx, to_addr, sent_msg,
                   message_id_header, sleeps, written, labels, results, fvars>>

Next ==
    \/ Press
    \/ Skip
    \/ SubmitOk
    \/ SubmitFail
    \/ Sleep
    \/ GetOk
    \/ GetFail
    \/ ModifyOk
    \/ ModifyFail
    \/ Record
    \/ Backup

Spec == Init /\ [][Next]_vars

\* ------------------------------------------------------------------------
\* get_or_create_label called again and again on one account
\* ------------------------------------------------------------------------
\* the handler's variables while no run is in progress
Idle ==
    /\ df = <<>>
    /\ uploaded = <<>>
    /\ columns = {"Email"}
    /\ send_mode = NewEmail
    /\ label_name = <<"M", "S">>
    /\ delay = 30
    /\ label_id = None
    /\ sent_count = 0
    /\ skipped = <<>>
    /\ errors = <<>>
    /\ idx = 1
    /\ to_addr = NoMatch
    /\ sent_msg = NoMsg
    /\ message_id_header = None
    /\ requests = <<>>
    /\ sleeps = <<>>
    /\ nap = 0
    /\ written = {}
    /\ outcome = <<>>

InitLabel ==
    /\ pc = "labels"
    /\ Idle
    /\ labels \in Stores
    /\ results = <<>>
    /\ tokens = <<>>
    /\ template = <<>>
    /\ row = <<>>
    /\ rendered = <<>>

\* line 248, once per press of the button, with the name typed at that time
CallLabel ==
    /\ pc = "labels"
    /\ Len(results) < MaxCalls
    /\ \E name \in LabelNames, listOk \in BOOLEAN, createOk \in BOOLEAN :
          LET r == get_or_create_label(labels, name, listOk, createOk)
          IN  /\ labels' = r.labels
              /\ results' = Append(results, [name |-> name, id |-> r.id,
                                          raised |-> r.raised])
    /\ UNCHANGED <<dvars, fvars>>

NextLabel == CallLabel

SpecLabel == InitLabel /\ [][NextLabel]_vars

\* ------------------------------------------------------------------------
\* safe_format_template applied to a template and a row
\* ------------------------------------------------------------------------
\* the pieces a template is written with: text, the placeholders {N} and
\* {M}, the escaped braces {{ and }}, and a brace on its own
TokenKinds == {"text", "field_N", "field_M", "open", "close", "lone_open", "lone_close"}

TokenText(k) ==
    CASE k = "text" -> <<"x">>
      [] k = "field_N" -> <<"{", "N", "}">>
      [] k = "field_M" -> <<"{", "M", "}">>
      [] k = "open" -> <<"{", "{">>
      [] k = "close" -> <<"}", "}">>
      [] k = "lone_open" -> <<"{">>
      [] k = "lone_close" -> <<"}">>

RECURSIVE Compose(_)
Compose(ts) == IF ts = <<>> THEN <<>> ELSE TokenText(Head(ts)) \o Compose(Tail(ts))

TokenSeqs == UNION {[1 .. n -> TokenKinds] : n \in 0 .. MaxTokens}

\* rows: one without columns, and two with a column N, the value of the
\* second being a brace
FormatRows == {<<>>, (<<"N">> :> <<"v">>), (<<"N">> :> <<"{">>)}

InitFormat ==
    /\ pc = "template"
    /\ Idle
    /\ labels = <<>>
    /\ results = <<>>
    /\ tokens \in TokenSeqs
    /\ template = Compose(tokens)
    /\ row \in FormatRows
    /\ rendered = <<>>

\* line 224: the preview renders the template for a row
Render ==
    /\ pc = "template"
    /\ rendered' = safe_format_template(template, row)
    /\ pc' = "rendered"
    /\ UNCHANGED <<outcome, nap, df, columns, uploaded, send_mode, label_name, delay,
                   label_id, sent_count, skipped, errors, idx, to_addr, sent_msg,
                   message_id_header, requests, sleeps, written, labels, results,
                   tokens, template, row>>

NextFormat == Render

SpecFormat == InitFormat /\ [][NextFormat]_vars

\* ------------------------------------------------------------------------
\* Properties of the dispatch loop
\* ------------------------------------------------------------------------
\* a run of the handler is past the button
Running == pc \in {"row", "sleep", "get", "modify", "record", "done"}

\* the rows the loop has finished with
Processed == 1 .. idx - 1

RowsWith(o) == {i \in DOMAIN outcome : outcome[i] = <<o>>}

\* the requests the loop issued for row i
LoopRequests(i) == {k \in DOMAIN requests : requests[k].row = i}

Submitted(i) == \E k \in LoopRequests(i) :
                    requests[k].op \in {"send", "draft"} /\ requests[k].ok

SubmitRaised(i) == \E k \in LoopRequests(i) :
                       requests[k].op \in {"send", "draft"} /\ ~requests[k].ok

GetRaised(i) == \E k \in LoopRequests(i) : requests[k].op = "get" /\ ~requests[k].ok

\* C1: after any prefix of k rows, each of the k rows has exactly one outcome,
\* sent_count + len(skipped) + len(errors) = k with each count the number of
\* rows of its kind, the rows not yet reached have none, the table keeps the
\* rows of the input, and at the end k = n.
C1_OneOutcomePerRow ==
    Running =>
        /\ idx - 1 \in 0 .. Len(uploaded)
        /\ sent_count + Len(skipped) + Len(errors) = idx - 1
        /\ \A i \in Processed : Len(outcome[i]) = 1
        /\ \A i \in DOMAIN df \ Processed : outcome[i] = <<>>
        /\ sent_count = Cardinality(RowsWith("sent"))
        /\ Len(skipped) = Cardinality(RowsWith("skipped"))
        /\ Len(errors) = Cardinality(RowsWith("failed"))
        /\ Len(df) = Len(uploaded)
        /\ \A i \in DOMAIN df : df[i].Email = uploaded[i].Email
        /\ (pc = "done" => idx - 1 = Len(uploaded))

\* the run of section 8: three rows, the second without an address, the
\* third's send raising: one success, one skip, one failure
C1_Witness ==
    /\ pc = "done"
    /\ Len(df) = 3
    /\ outcome = <<(<<"sent">>), (<<"skipped">>), (<<"failed">>)>>
    /\ SubmitRaised(3)
    /\ sent_count = 1 /\ Len(skipped) = 1 /\ Len(errors) = 1

\* C2: a row whose send or create-draft returned and whose messages.get
\* raised is counted as a success, with no entry in errors, its ThreadId
\* recorded and its RfcMessageId the empty string.
C2_MetadataFailureKeepsRow ==
    Running =>
        \A i \in Processed :
            Submitted(i) /\ GetRaised(i) =>
                /\ outcome[i] = <<"sent">>
                /\ i \in written
                /\ df[i].ThreadId \notin {None, uploaded[i].ThreadId}
                /\ df[i].RfcMessageId = ""

\* the last request issued is a send or create-draft that raised
SubmitJustRaised ==
    /\ Len(requests') = Len(requests) + 1
    /\ requests'[Len(requests')].op \in {"send", "draft"}
    /\ requests'[Len(requests')].row >= 1
    /\ ~requests'[Len(requests')].ok

\* C3 (step): a send or create-draft that raises adds exactly one entry, the
\* address and the message, to errors, and the loop goes on to the next row.
C3_FailedSubmitStep ==
    [][SubmitJustRaised =>
          /\ errors' = Append(errors,
                 <<address[df[idx].Email], "submit raised">>)
          /\ sent_count' = sent_count /\ skipped' = skipped /\ df' = df
          /\ idx' = idx + 1
          /\ pc' = "row"]_vars

\* C3 (end): at the end every row has been processed, whatever raised
C3_AllRowsProcessed ==
    pc = "done" =>
        /\ idx = Len(uploaded) + 1
        /\ \A i \in DOMAIN uploaded : Len(outcome[i]) = 1
        /\ \A i \in DOMAIN uploaded :
              address[uploaded[i].Email] # NoMatch =>
                  Submitted(i) \/ SubmitRaised(i)
        /\ Len(errors) >= Cardinality({i \in DOMAIN uploaded : SubmitRaised(i)})

\* the steps the loop has left at most: five per row not yet finished
StepsLeft ==
    5 * (Len(df) + 1 - idx)
      + (CASE pc = "row" -> 4
           [] pc = "sleep" -> 3
           [] pc = "get" -> 2
           [] pc = "modify" -> 1
           [] OTHER -> 0)

\* C3 (termination): the loop is never stuck before its end and every step
\* of it lowers StepsLeft, which is never negative: it ends after at most
\* 5 * n + 4 steps, whatever raises.
C3_Terminates ==
    /\ [](Running => StepsLeft >= 0)
    /\ [](Running /\ pc # "done" => ENABLED Next)
    /\ [][Running => StepsLeft' < StepsLeft]_vars

\* C3: for every pattern of failures a failed send or create-draft adds one
\* entry to errors and does not stop the loop, every row is processed, and
\* the loop terminates after the last row.
C3_FailuresDoNotAbort ==
    /\ C3_FailedSubmitStep
    /\ [](Running => C3_AllRowsProcessed)
    /\ C3_Terminates

\* every row with an address fails at its send, and the run still ends
C3_Witness ==
    /\ pc = "done"
    /\ Len(df) = 3
    /\ \A i \in DOMAIN df : SubmitRaised(i)
    /\ Len(errors) = 3

\* C4: a row that ends skipped or failed has no sleep, a row that ends sent
\* has exactly one, and every sleep lasts between 0.9 and 1.1 times delay.
C4_OnlySentRowsSleep ==
    Running =>
        /\ \A i \in Processed :
              /\ outcome[i] \in {<<"skipped">>, <<"failed">>} => sleeps[i] = 0
              /\ outcome[i] = <<"sent">> => sleeps[i] = 1
        /\ (pc \in {"get", "modify", "record"} =>
                9 * delay <= nap /\ nap <= 11 * delay)

\* C5: in Save-as-Draft mode the loop issues create-draft and never send nor
\* modify; in the other modes it issues send and never create-draft; modify
\* is issued only in New-Email mode, with the resolved label id, for a
\* message whose send has returned.
C5_OperationFixedByMode ==
    Running =>
        \A k \in DOMAIN requests :
            requests[k].row >= 1 =>
                /\ requests[k].op \in {"send", "draft", "get", "modify"}
                /\ (send_mode = SaveDraft => requests[k].op \in {"draft", "get"})
                /\ (send_mode # SaveDraft => requests[k].op # "draft")
                /\ (requests[k].op = "modify" =>
                       /\ send_mode = NewEmail
                       /\ label_id # None
                       /\ requests[k].label = label_id
                       /\ \E j \in 1 .. k - 1 :
                             /\ requests[j].op = "send"
                             /\ requests[j].ok
                             /\ requests[j].row = requests[k].row
                             /\ requests[j].id = requests[k].id)

\* a New-Email run that labelled a message, after a row whose send raised
C5_Witness ==
    /\ pc = "done"
    /\ send_mode = NewEmail
    /\ \E k \in DOMAIN requests : requests[k].op = "modify" /\ requests[k].ok
    /\ \E i \in DOMAIN df : SubmitRaised(i)

\* the thread a send request is submitted in, None when it names none
thread_of(body) == IF "threadId" \in DOMAIN body THEN body.threadId ELSE None

\* the message a sent message replies to, None when it names none
in_reply_to(body) ==
    IF "In-Reply-To" \in DOMAIN body.raw THEN body.raw["In-Reply-To"] ELSE None

\* C6: in Follow-up mode the send request of a row that carries a ThreadId
\* and RfcMessageId names that thread and that message.
C6_FollowUpUsesStoredIds ==
    Running /\ send_mode = FollowUp =>
        \A k \in DOMAIN requests :
            /\ requests[k].op = "send"
            /\ requests[k].row >= 1
            /\ uploaded[requests[k].row].ThreadId # None
            => /\ thread_of(requests[k].body) = uploaded[requests[k].row].ThreadId
               /\ in_reply_to(requests[k].body) = uploaded[requests[k].row].RfcMessageId

\* ------------------------------------------------------------------------
\* Properties of get_or_create_label
\* ------------------------------------------------------------------------
SameName(a, b) == lower(a) = lower(b)

\* C7: two calls with the same name up to letter case that return a label
\* identifier return the same one, and the account never holds two labels
\* with the same name up to letter case; a call returns no identifier only
\* when its list or create call raised.
C7_LabelIdempotent ==
    pc = "labels" =>
        /\ \A i \in DOMAIN results : results[i].id = None <=> results[i].raised
        /\ \A i, j \in DOMAIN results :
              /\ SameName(results[i].name, results[j].name)
              /\ results[i].id # None
              /\ results[j].id # None
              => results[i].id = results[j].id
        /\ \A i, j \in DOMAIN labels :
              SameName(labels[i].name, labels[j].name) => i = j
        /\ \A i \in DOMAIN results :
              results[i].id # None =>
                  \E k \in DOMAIN labels :
                      /\ labels[k].id = results[i].id
                      /\ SameName(labels[k].name, results[i].name)

\* the label is created by the first call and found, under another spelling,
\* by the second and the third
C7_Witness ==
    /\ pc = "labels"
    /\ Len(results) = 3
    /\ Len(labels) = 1
    /\ results[1].name # results[2].name
    /\ \A i \in DOMAIN results :
          SameName(results[i].name, <<"M", "S">>) /\ results[i].id = LabelId(1)
    /\ labels[1].name = results[1].name

\* C8: when the label list or create call raises, get_or_create_label
\* returns no label id, every row with an address is still submitted, no
\* modify call is made, and every row whose send returned is a success.
C8_LabelFailureDegrades ==
    Running /\ results[1].raised =>
        /\ label_id = None
        /\ \A k \in DOMAIN requests : requests[k].op # "modify"
        /\ \A i \in Processed :
              address[uploaded[i].Email] # NoMatch =>
                  Submitted(i) \/ SubmitRaised(i)
        /\ \A i \in Processed : Submitted(i) => outcome[i] = <<"sent">>

\* ------------------------------------------------------------------------
\* Properties of safe_format_template
\* ------------------------------------------------------------------------
\* what the renderer is to produce for a template written with text,
\* placeholders and escaped braces
TokenValue(k, r) ==
    CASE k = "text" -> <<"x">>
      [] k = "field_N" -> IF <<"N">> \in DOMAIN r THEN r[<<"N">>] ELSE <<>>
      [] k = "field_M" -> IF <<"M">> \in DOMAIN r THEN r[<<"M">>] ELSE <<>>
      [] k = "open" -> <<"{">>
      [] k = "close" -> <<"}">>
      [] OTHER -> <<>>

RECURSIVE Substituted(_, _)
Substituted(ts, r) ==
    IF ts = <<>> THEN <<>> ELSE TokenValue(Head(ts), r) \o Substituted(Tail(ts), r)

Lone == {"lone_open", "lone_close"}

\* no brace on its own
WellFormed(ts) == \A i \in DOMAIN ts : ts[i] \notin Lone

\* exactly one brace on its own: no reading of the template pairs it
Malformed(ts) == Cardinality({i \in DOMAIN ts : ts[i] \in Lone}) = 1

\* C9: the renderer returns a string for every template and row; in a
\* well-formed template every placeholder of a field of the row is replaced
\* by the row's value and every placeholder of a field the row lacks by the
\* empty string; a malformed template is returned unchanged.
C9_RenderSubstitutes ==
    pc = "rendered" =>
        /\ WellFormed(tokens) => rendered = Substituted(tokens, row)
        /\ Malformed(tokens) => rendered = template

\* ------------------------------------------------------------------------
\* The correlation fields
\* ------------------------------------------------------------------------
\* C10: ThreadId and RfcMessageId of a row are written only when the row is
\* counted as a success: a row that ends skipped or failed keeps the values
\* it was uploaded with, and sent_count is the number of rows written.
C10_IdsWrittenOnlyOnSuccess ==
    Running =>
        /\ \A i \in DOMAIN df :
              outcome[i] # <<"sent">> =>
                  /\ i \notin written
                  /\ df[i].ThreadId = uploaded[i].ThreadId
                  /\ df[i].RfcMessageId = uploaded[i].RfcMessageId
        /\ written = RowsWith("sent")
        /\ sent_count = Cardinality(written)

\* a follow-up table: the first row fails after its send returned and keeps
\* its stored ids, the second has no address and keeps them, the third is
\* sent and has its ids replaced
C10_Witness ==
    /\ pc = "done"
    /\ Len(df) = 3
    /\ outcome = <<(<<"failed">>), (<<"skipped">>), (<<"sent">>)>>
    /\ Submitted(1)
    /\ \A i \in DOMAIN df : uploaded[i].ThreadId = OldThread
    /\ df[1].ThreadId = OldThread /\ df[2].RfcMessageId = OldRfcId
    /\ df[3].ThreadId # OldThread
    /\ written = {3}

====
